---- MODULE Spec2Model ----
(***************************************************************************)
(* BatchImageProcessor (src/gogolin/batch_image_processor.py): the         *)
(* constructor with its process-wide environment settings, and             *)
(* process_directory with its three stages (_collect_image_files,          *)
(* _load_datasets, _process_images), one action per step of the code.      *)
(*                                                                         *)
(* File names and extensions are sequences of one-character strings, so    *)
(* that Path.suffix, str.lower and os.path.splitext are computed as the    *)
(* library computes them.                                                  *)
(***************************************************************************)
EXTENDS Integers, Sequences, FiniteSets, TLC

VARIABLES
    env,          \* os.environ, the four keys the constructor writes
    procs,        \* the processors constructed so far, in construction order
    ctor_error,   \* what the most recent constructor call raised ("none" if nothing)
    pc,           \* where the current process_directory call stands
    self,         \* index in procs of the processor whose process_directory runs
    dir_kind,     \* what input_directory names: "missing", "file" or "dir"
    listing,      \* os.listdir of the input directory, in listing order
    listed,       \* whether os.listdir has been called in this run
    image_files,  \* _collect_image_files' result
    li,           \* how many elements of image_files _load_datasets has visited
    load_log,     \* what read_local_images did for each visited element
    dss,          \* _load_datasets' dss
    ds_paths,     \* _load_datasets' ds_paths
    i,            \* how many items the loop of _process_images has finished
    processed,    \* _process_images' processed
    failed,       \* _process_images' failed
    total,        \* _process_images' total
    calls,        \* the external calls of the loop so far: transform and clean_memory
    writes,       \* the markdown files dump_md has written in this run, in order
    result,       \* the returned triple, <<>> while there is none
    error         \* the exception process_directory raised to its caller

vars == <<env, procs, ctor_error, pc, self, dir_kind, listing, listed, image_files,
          li, load_log, dss, ds_paths, i, processed, failed, total, calls, writes,
          result, error>>

runVars == <<pc, self, dir_kind, listing, listed, image_files, li, load_log, dss,
             ds_paths, i, processed, failed, total, calls, writes, result, error>>

(***************************************************************************)
(* Bounds of the model.                                                    *)
(***************************************************************************)
MaxFiles == 2      \* entries of the input directory
MaxProcs == 2      \* processors constructed in one process (EnvSpec)

(***************************************************************************)
(* Strings.                                                                *)
(***************************************************************************)
UpperToLower ==
    [c \in {"A", "B", "G", "J", "N", "P"} |->
        CASE c = "A" -> "a" [] c = "B" -> "b" [] c = "G" -> "g"
          [] c = "J" -> "j" [] c = "N" -> "n" [] c = "P" -> "p"]

\* str.lower()
lower(s) ==
    [k \in 1..Len(s) |-> IF s[k] \in DOMAIN UpperToLower THEN UpperToLower[s[k]] ELSE s[k]]

\* str.rfind(c), one-based: 0 when c does not occur
rfind(s, c) ==
    LET at == {k \in 1..Len(s) : s[k] = c}
    IN  IF at = {} THEN 0 ELSE CHOOSE k \in at : \A m \in at : m <= k

\* pathlib: Path(file).suffix of a bare file name
PathSuffix(file) ==
    LET d == rfind(file, ".")
    IN  IF 1 < d /\ d < Len(file) THEN SubSeq(file, d, Len(file)) ELSE <<>>

\* os.path.splitext(image_name)[0] of a bare file name: the last dot splits,
\* unless only dots precede it
SplitextRoot(image_name) ==
    LET d == rfind(image_name, ".")
    IN  IF d > 0 /\ \E k \in 1..(d - 1) : image_name[k] # "."
        THEN SubSeq(image_name, 1, d - 1)
        ELSE image_name

\* f"{filename}.md"
MdName(filename) == filename \o <<".", "m", "d">>

\* x in list
InList(x, list) == \E k \in 1..Len(list) : list[k] = x

(***************************************************************************)
(* Inputs.                                                                 *)
(***************************************************************************)
DefaultFormats == << <<".", "p", "n", "g">>, <<".", "j", "p", "g">>,
                     <<".", "j", "p", "e", "g">> >>

\* the supported_formats argument; <<>> stands for None (and for an empty list)
FormatArgs == { <<>>,
                << <<".", "P", "N", "G">> >>,
                << <<".", "j", "p", "g">> >> }

\* the (vram_size, ocr_thresh, ocr_batch_num) arguments
Settings == { [vram_size |-> "8", ocr_thresh |-> "0.2", ocr_batch_num |-> "6"],
              [vram_size |-> "4", ocr_thresh |-> "0.5", ocr_batch_num |-> "2"] }

\* what get_local_models_dir() returns: nothing, or a directory
ModelsDirs == {"", "models"}

\* the entries a directory may hold: files and one subdirectory
DirEntries ==
    { [name |-> <<"a", ".", "p", "n", "g">>, is_file |-> TRUE],
      [name |-> <<"a", ".", "j", "p", "g">>, is_file |-> TRUE],
      [name |-> <<"b", ".", "P", "N", "G">>, is_file |-> TRUE],
      [name |-> <<"n", ".", "t", "x", "t">>, is_file |-> TRUE],
      [name |-> <<"d", ".", "p", "n", "g">>, is_file |-> FALSE] }

\* the listings of a directory: its entries in some order, no name twice
Listings(n) ==
    UNION { { s \in [1..m -> DirEntries] :
                \A x, y \in 1..m : x # y => s[x].name # s[y].name } : m \in 0..n }

NoError == [type |-> "none", msg |-> ""]
InvalidDirectoryError == [type |-> "ValueError", msg |-> "Invalid directory"]
NoImagesError == [type |-> "ValueError", msg |-> "No valid images could be loaded"]

(***************************************************************************)
(* The constructor.                                                        *)
(***************************************************************************)
UnsetEnv == [LOCAL_MODELS_DIR |-> "unset", VIRTUAL_VRAM_SIZE |-> "unset",
             OCR_DET_DB_THRESH |-> "unset", OCR_REC_BATCH_NUM |-> "unset"]

\* str(Path(models_dir).resolve())
Resolve(models_dir) ==
    CASE models_dir = "models" -> "/cwd/models"
      [] OTHER -> models_dir

\* _init_environment
InitEnvironment(e, models_dir, vram_size, ocr_thresh, ocr_batch_num) ==
    [e EXCEPT !.LOCAL_MODELS_DIR = IF models_dir # "" THEN Resolve(models_dir) ELSE @,
              !.VIRTUAL_VRAM_SIZE = vram_size,
              !.OCR_DET_DB_THRESH = ocr_thresh,
              !.OCR_REC_BATCH_NUM = ocr_batch_num]

\* defective variant of ConstructFail: _init_environment called before os.makedirs
ConstructFailAfterEnv(limit) ==
    /\ pc = "idle"
    /\ Len(procs) < limit
    /\ \E s \in Settings :
          env' = InitEnvironment(env, "", s.vram_size, s.ocr_thresh, s.ocr_batch_num)
    /\ ctor_error' = "OSError"
    /\ UNCHANGED <<procs, runVars>>

\* __init__ when os.makedirs raises: nothing after it runs
ConstructFail(limit) ==
    /\ pc = "idle"
    /\ Len(procs) < limit
    /\ ctor_error' = "OSError"
    /\ UNCHANGED <<env, procs, runVars>>

\* __init__ when os.makedirs succeeds
ConstructOk(limit, supported_formats, s, models_dir) ==
    /\ pc = "idle"
    /\ Len(procs) < limit
    /\ env' = InitEnvironment(env, models_dir, s.vram_size, s.ocr_thresh, s.ocr_batch_num)
    /\ procs' = Append(procs,
                  [supported_formats |->
                       IF supported_formats # <<>> THEN supported_formats ELSE DefaultFormats,
                   args |-> s])
    /\ ctor_error' = "none"
    /\ UNCHANGED runVars

(***************************************************************************)
(* process_directory.                                                      *)
(***************************************************************************)
\* defective variant of Validate: only os.path.exists is checked, not os.path.isdir
ValidateExistsOnly(p, kind, ls) ==
    /\ pc = "idle"
    /\ p \in 1..Len(procs)
    /\ self' = p
    /\ dir_kind' = kind
    /\ listing' = IF kind = "dir" THEN ls ELSE <<>>
    /\ ctor_error' = "none"
    /\ IF kind = "missing"
       THEN /\ error' = InvalidDirectoryError
            /\ pc' = "raised"
       ELSE /\ error' = NoError
            /\ pc' = "collect"
    /\ UNCHANGED <<env, procs, listed, image_files, li, load_log, dss, ds_paths, i,
                   processed, failed, total, calls, writes, result>>

\* the directory check at the head of process_directory
Validate(p, kind, ls) ==
    /\ pc = "idle"
    /\ p \in 1..Len(procs)
    /\ self' = p
    /\ dir_kind' = kind
    /\ listing' = IF kind = "dir" THEN ls ELSE <<>>
    /\ ctor_error' = "none"
    /\ IF kind # "dir"
       THEN /\ error' = InvalidDirectoryError
            /\ pc' = "raised"
       ELSE /\ error' = NoError
            /\ pc' = "collect"
    /\ UNCHANGED <<env, procs, listed, image_files, li, load_log, dss, ds_paths, i,
                   processed, failed, total, calls, writes, result>>

\* _collect_image_files' loop from entry k of the listing on
RECURSIVE CollectFrom(_, _, _)
CollectFrom(ls, k, supported_formats) ==
    IF k > Len(ls)
    THEN <<>>
    ELSE LET file == ls[k].name
             suffix == PathSuffix(file)
         IN  (IF InList(lower(suffix), supported_formats)
              THEN << [file_path |-> k, name |-> file] >>
              ELSE <<>>)
             \o CollectFrom(ls, k + 1, supported_formats)

\* _collect_image_files
CollectImageFiles(ls, supported_formats) == CollectFrom(ls, 1, supported_formats)

Collect ==
    /\ pc = "collect"
    /\ listed' = TRUE
    /\ image_files' = CollectImageFiles(listing, procs[self].supported_formats)
    /\ pc' = "load"
    /\ UNCHANGED <<env, procs, ctor_error, self, dir_kind, listing, li, load_log, dss,
                   ds_paths, i, processed, failed, total, calls, writes, result, error>>

\* read_local_images on one candidate: it raises, returns an empty list, or returns
\* one dataset; a candidate that is no file is never read as an image
ReadOutcomes == {"raise", "empty", "one"}

Readable(candidate) == listing[candidate.file_path].is_file

\* defective variant of LoadOne: the file name is recorded even when the load fails
LoadOneKeepsFailure(outcome) ==
    /\ pc = "load"
    /\ li < Len(image_files)
    /\ outcome = "one" => Readable(image_files[li + 1])
    /\ li' = li + 1
    /\ load_log' = Append(load_log, outcome)
    /\ dss' = Append(dss, image_files[li + 1].file_path)
    /\ ds_paths' = Append(ds_paths, image_files[li + 1].name)
    /\ UNCHANGED <<env, procs, ctor_error, pc, self, dir_kind, listing, listed,
                   image_files, i, processed, failed, total, calls, writes, result, error>>

\* one pass of the loop of _load_datasets
LoadOne(outcome) ==
    /\ pc = "load"
    /\ li < Len(image_files)
    /\ outcome = "one" => Readable(image_files[li + 1])
    /\ li' = li + 1
    /\ load_log' = Append(load_log, outcome)
    /\ IF outcome = "one"
       THEN /\ dss' = Append(dss, image_files[li + 1].file_path)
            /\ ds_paths' = Append(ds_paths, image_files[li + 1].name)
       ELSE UNCHANGED <<dss, ds_paths>>
    /\ UNCHANGED <<env, procs, ctor_error, pc, self, dir_kind, listing, listed,
                   image_files, i, processed, failed, total, calls, writes, result, error>>

\* defective variant of CheckLoaded: the check of dss is missing
CheckLoadedNoCheck ==
    /\ pc = "load"
    /\ li = Len(image_files)
    /\ processed' = 0
    /\ failed' = 0
    /\ total' = Len(dss)
    /\ pc' = "loop"
    /\ UNCHANGED <<env, procs, ctor_error, self, dir_kind, listing, listed, image_files,
                   li, load_log, dss, ds_paths, i, calls, writes, result, error>>

\* the end of _load_datasets, the check of dss, and the head of _process_images
CheckLoaded ==
    /\ pc = "load"
    /\ li = Len(image_files)
    /\ IF dss = <<>>
       THEN /\ error' = NoImagesError
            /\ pc' = "raised"
            /\ UNCHANGED <<processed, failed, total>>
       ELSE /\ processed' = 0
            /\ failed' = 0
            /\ total' = Len(dss)
            /\ pc' = "loop"
            /\ UNCHANGED error
    /\ UNCHANGED <<env, procs, ctor_error, self, dir_kind, listing, listed, image_files,
                   li, load_log, dss, ds_paths, i, calls, writes, result>>

\* zip(dss, ds_paths)
ZipLen == IF Len(dss) <= Len(ds_paths) THEN Len(dss) ELSE Len(ds_paths)

\* the loop body up to processed += 1, when apply/pipe_ocr_mode/dump_md succeed
TransformOk ==
    /\ pc = "loop"
    /\ i < ZipLen
    /\ LET filename == SplitextRoot(ds_paths[i + 1])
       IN  writes' = Append(writes, [name |-> MdName(filename), item |-> i + 1])
    /\ processed' = processed + 1
    /\ calls' = Append(calls, [call |-> "transform", item |-> i + 1, raised |-> FALSE])
    /\ pc' = "clean"
    /\ UNCHANGED <<env, procs, ctor_error, self, dir_kind, listing, listed, image_files,
                   li, load_log, dss, ds_paths, i, failed, total, result, error>>

\* defective variant of TransformRaise: no except clause, the exception leaves the loop
TransformRaisePropagates ==
    /\ pc = "loop"
    /\ i < ZipLen
    /\ calls' = Append(calls, [call |-> "transform", item |-> i + 1, raised |-> TRUE])
    /\ error' = [type |-> "Exception", msg |-> "transform"]
    /\ pc' = "raised"
    /\ UNCHANGED <<env, procs, ctor_error, self, dir_kind, listing, listed, image_files,
                   li, load_log, dss, ds_paths, i, processed, failed, total, writes,
                   result>>

\* defective variant of TransformRaise: the failed item is tried again
TransformRaiseRetries ==
    /\ pc = "loop"
    /\ i < ZipLen
    /\ Len(calls) < 2 * ZipLen
    /\ calls' = Append(calls, [call |-> "transform", item |-> i + 1, raised |-> TRUE])
    /\ failed' = failed + 1
    /\ UNCHANGED <<env, procs, ctor_error, pc, self, dir_kind, listing, listed,
                   image_files, li, load_log, dss, ds_paths, i, processed, total, writes,
                   result, error>>

\* the loop body when apply/pipe_ocr_mode/dump_md raise: the except clause
TransformRaise ==
    /\ pc = "loop"
    /\ i < ZipLen
    /\ calls' = Append(calls, [call |-> "transform", item |-> i + 1, raised |-> TRUE])
    /\ failed' = failed + 1
    /\ i' = i + 1
    /\ UNCHANGED <<env, procs, ctor_error, pc, self, dir_kind, listing, listed,
                   image_files, li, load_log, dss, ds_paths, processed, total, writes,
                   result, error>>

\* clean_memory() returns
CleanOk ==
    /\ pc = "clean"
    /\ calls' = Append(calls, [call |-> "clean_memory", item |-> i + 1, raised |-> FALSE])
    /\ i' = i + 1
    /\ pc' = "loop"
    /\ UNCHANGED <<env, procs, ctor_error, self, dir_kind, listing, listed, image_files,
                   li, load_log, dss, ds_paths, processed, failed, total, writes,
                   result, error>>

\* clean_memory() raises: the except clause
CleanRaise ==
    /\ pc = "clean"
    /\ calls' = Append(calls, [call |-> "clean_memory", item |-> i + 1, raised |-> TRUE])
    /\ failed' = failed + 1
    /\ i' = i + 1
    /\ pc' = "loop"
    /\ UNCHANGED <<env, procs, ctor_error, self, dir_kind, listing, listed, image_files,
                   li, load_log, dss, ds_paths, processed, total, writes, result, error>>

\* the loop is over: return total, processed, failed
Return ==
    /\ pc = "loop"
    /\ i = ZipLen
    /\ result' = <<total, processed, failed>>
    /\ pc' = "done"
    /\ UNCHANGED <<env, procs, ctor_error, self, dir_kind, listing, listed, image_files,
                   li, load_log, dss, ds_paths, i, processed, failed, total, calls,
                   writes, error>>

(***************************************************************************)
(* The caller.                                                             *)
(***************************************************************************)
RunInit ==
    /\ pc = "idle"
    /\ self = 0
    /\ dir_kind = "dir"
    /\ listing = <<>>
    /\ listed = FALSE
    /\ image_files = <<>>
    /\ li = 0
    /\ load_log = <<>>
    /\ dss = <<>>
    /\ ds_paths = <<>>
    /\ i = 0
    /\ processed = 0
    /\ failed = 0
    /\ total = 0
    /\ calls = <<>>
    /\ writes = <<>>
    /\ result = <<>>
    /\ error = NoError

\* the caller has the triple, or has caught the exception, and goes on
Resume ==
    /\ pc \in {"done", "raised"}
    /\ pc' = "idle"
    /\ self' = 0
    /\ dir_kind' = "dir"
    /\ listing' = <<>>
    /\ listed' = FALSE
    /\ image_files' = <<>>
    /\ li' = 0
    /\ load_log' = <<>>
    /\ dss' = <<>>
    /\ ds_paths' = <<>>
    /\ i' = 0
    /\ processed' = 0
    /\ failed' = 0
    /\ total' = 0
    /\ calls' = <<>>
    /\ writes' = <<>>
    /\ result' = <<>>
    /\ error' = NoError
    /\ UNCHANGED <<env, procs, ctor_error>>

Init ==
    /\ env = UnsetEnv
    /\ procs = <<>>
    /\ ctor_error = "none"
    /\ RunInit

\* the steps of one process_directory call after its entry
RunStep ==
    \/ Collect
    \/ \E outcome \in ReadOutcomes : LoadOne(outcome)
    \/ CheckLoaded
    \/ TransformOk
    \/ TransformRaise
    \/ CleanOk
    \/ CleanRaise
    \/ Return

\* one processor, directories of up to MaxFiles entries
Next ==
    \/ ConstructFail(1)
    \/ \E f \in FormatArgs, s \in Settings, m \in ModelsDirs : ConstructOk(1, f, s, m)
    \/ \E p \in 1..Len(procs), kind \in {"missing", "file", "dir"}, ls \in Listings(MaxFiles) :
          Validate(p, kind, ls)
    \/ RunStep
    \/ Resume

Spec == Init /\ [][Next]_vars

\* the interpreter goes on with a call it has entered
FairSpec == Spec /\ WF_vars(RunStep)

\* several processors, directories of at most one entry
EnvNext ==
    \/ ConstructFail(MaxProcs)
    \/ \E f \in FormatArgs, s \in Settings, m \in ModelsDirs : ConstructOk(MaxProcs, f, s, m)
    \/ \E p \in 1..Len(procs), kind \in {"missing", "file", "dir"}, ls \in Listings(1) :
          Validate(p, kind, ls)
    \/ RunStep
    \/ Resume

EnvSpec == Init /\ [][EnvNext]_vars

(***************************************************************************)
(* What the run has done, read from its logs.                              *)
(***************************************************************************)
InLoop == pc \in {"loop", "clean", "done"}

\* the positions of `calls` that are transform calls
TransformCalls == {k \in 1..Len(calls) : calls[k].call = "transform"}

\* the positions of `calls` at which the call raised
RaisedCalls == {k \in 1..Len(calls) : calls[k].raised}

\* the items whose transform call returned, and the items the except clause counted
SucceededItems == {calls[k].item : k \in {c \in TransformCalls : ~calls[c].raised}}
FailedItems == {calls[k].item : k \in RaisedCalls}

\* the candidates (positions of image_files) whose load returned a dataset
LoadedOk == {k \in 1..Len(load_log) : load_log[k] = "one"}

(***************************************************************************)
(* C1. Whatever each item's transform call and clean_memory call do, the   *)
(* returned triple satisfies total = succeeded + failed, its three numbers *)
(* are non-negative, and no item is counted as succeeded and as failed.    *)
(***************************************************************************)
C1_CountsAddUp ==
    pc = "done" =>
        /\ result[1] = result[2] + result[3]
        /\ result[1] >= 0 /\ result[2] >= 0 /\ result[3] >= 0
        /\ SucceededItems \cap FailedItems = {}

TransformRaisedStep ==
    /\ Len(calls') = Len(calls) + 1
    /\ calls'[Len(calls')].call = "transform"
    /\ calls'[Len(calls')].raised

SomeTransformRaised == \E k \in TransformCalls : calls[k].raised

(***************************************************************************)
(* C2. A transform call that raises for item i is caught in the loop: it   *)
(* adds exactly one to failed, leaves processed alone, raises nothing to   *)
(* the caller and moves on to item i + 1; every item of the run is still   *)
(* attempted and the run returns its triple.                               *)
(***************************************************************************)
C2_TransformFailureIsolated ==
    /\ [][TransformRaisedStep =>
            /\ failed' = failed + 1
            /\ processed' = processed
            /\ error' = NoError
            /\ pc' = "loop"
            /\ i' = i + 1]_vars
    /\ [](InLoop => error = NoError)
    /\ []((pc = "done" /\ SomeTransformRaised) =>
            /\ {calls[k].item : k \in TransformCalls} = 1..Len(dss)
            /\ result = <<total, processed, failed>>)
    /\ ((pc = "loop" /\ SomeTransformRaised) ~> (pc = "done"))

C2_Witness ==
    /\ pc = "done"
    /\ Len(calls) >= 2
    /\ calls[1].call = "transform" /\ calls[1].raised
    /\ calls[2].call = "transform" /\ ~calls[2].raised /\ calls[2].item = 2
    /\ result[3] = 1

(***************************************************************************)
(* C3. When the scan finds no candidate, or the load stage loads none,     *)
(* process_directory raises the no-images error instead of returning       *)
(* (0, 0, 0), and that run has made no transform call and written nothing. *)
(***************************************************************************)
C3_NoCandidatesIsFatal ==
    /\ InLoop => (image_files # <<>> /\ dss # <<>>)
    /\ pc = "done" => result[1] > 0
    /\ (pc = "raised" /\ dir_kind = "dir") =>
          /\ error = NoImagesError
          /\ li = Len(image_files)
          /\ dss = <<>>
          /\ calls = <<>>
          /\ writes = <<>>
          /\ result = <<>>

C3_Witness ==
    /\ pc = "raised"
    /\ error = NoImagesError
    /\ image_files # <<>>
    /\ li = Len(image_files)

MatchesIgnoringCase(e, supported_formats) ==
    /\ e.is_file
    /\ \E k \in 1..Len(supported_formats) :
          lower(PathSuffix(e.name)) = lower(supported_formats[k])

(***************************************************************************)
(* C5. For every accepted-extension list, in any letter case, and every    *)
(* listing, _collect_image_files returns exactly the entries that are      *)
(* files and whose extension equals a member of the list when both are     *)
(* compared case-insensitively, each once, in listing order.               *)
(***************************************************************************)
C5_CollectIsCaseInsensitive ==
    listed =>
        LET want == SelectSeq(listing,
                        LAMBDA e : MatchesIgnoringCase(e, procs[self].supported_formats))
        IN  /\ Len(image_files) = Len(want)
            /\ \A k \in 1..Len(want) : image_files[k].name = want[k].name

(***************************************************************************)
(* C6. A completed run leaves one markdown file per succeeded item, named  *)
(* by the stem of the input: the number of distinct files written equals   *)
(* succeeded, and no item's file is overwritten by another item's.         *)
(***************************************************************************)
C6_OneArtifactPerSuccess ==
    pc = "done" =>
        /\ \A k \in 1..Len(writes) :
              writes[k].name = MdName(SplitextRoot(ds_paths[writes[k].item]))
        /\ Cardinality({writes[k].name : k \in 1..Len(writes)}) = result[2]
        /\ \A j, k \in 1..Len(writes) : j # k => writes[j].name # writes[k].name

(***************************************************************************)
(* C7. After every transform call, returned or raised, clean_memory is     *)
(* called for that item before the next transform call and before the run  *)
(* returns.                                                                *)
(***************************************************************************)
C7_MemoryReleasedAfterEveryItem ==
    \A k \in TransformCalls :
        IF k < Len(calls)
        THEN calls[k + 1].call = "clean_memory" /\ calls[k + 1].item = calls[k].item
        ELSE pc = "clean"

Phase ==
    CASE pc = "idle" -> 0
      [] pc = "collect" -> 1
      [] pc = "load" -> 2
      [] pc \in {"loop", "clean"} -> 3
      [] pc \in {"done", "raised"} -> 4

(***************************************************************************)
(* C9. In a run that passes the load stage the transform is called on the  *)
(* loaded items one at a time, in scan order, each exactly once whatever   *)
(* the earlier outcomes; the run then returns; and the phases of a run     *)
(* (scan, load, item 1..N, done) only move forward.                        *)
(***************************************************************************)
C9_SequentialOnceForward ==
    /\ [](\A j, k \in 1..Len(dss) : j < k => dss[j] < dss[k])
    /\ [](LET t == SelectSeq(calls, LAMBDA c : c.call = "transform")
          IN  /\ \A k \in 1..Len(t) : t[k].item = k
              /\ Len(t) = IF pc = "clean" THEN i + 1 ELSE i
              /\ pc = "done" => Len(t) = Len(dss))
    /\ [][/\ pc' = "idle" => pc \in {"idle", "done", "raised"}
          /\ pc' # "idle" => /\ Phase' >= Phase
                             /\ li' >= li
                             /\ i' >= i
                             /\ i' <= i + 1]_vars
    /\ (InLoop ~> (pc = "done"))

C9_Witness ==
    /\ pc = "done"
    /\ Len(dss) = 2
    /\ Len(calls) = 3
    /\ calls[1].raised

(***************************************************************************)
(* C10. The three engine settings in the environment are those of the      *)
(* processor constructed last: a successful construction overwrites them,  *)
(* process_directory and a construction that fails in os.makedirs leave    *)
(* them alone, so a processor constructed earlier runs under the settings  *)
(* of the one constructed last.                                            *)
(***************************************************************************)
C10_EnvLastWriterWins ==
    IF procs = <<>>
    THEN /\ env.VIRTUAL_VRAM_SIZE = "unset"
         /\ env.OCR_DET_DB_THRESH = "unset"
         /\ env.OCR_REC_BATCH_NUM = "unset"
    ELSE LET last == procs[Len(procs)].args
         IN  /\ env.VIRTUAL_VRAM_SIZE = last.vram_size
             /\ env.OCR_DET_DB_THRESH = last.ocr_thresh
             /\ env.OCR_REC_BATCH_NUM = last.ocr_batch_num

C10_Witness ==
    /\ pc = "clean"
    /\ self = 1
    /\ Len(procs) = 2
    /\ procs[1].args # procs[2].args
    /\ env.VIRTUAL_VRAM_SIZE = procs[2].args.vram_size
    /\ env.VIRTUAL_VRAM_SIZE # procs[1].args.vram_size

====
